---- MODULE Spec2Model ----
(***************************************************************************)
(* A model of three pieces of edx-platform:                                *)
(*   - common/djangoapps/third_party_auth/saml.py  (SAML backend and the   *)
(*     SAP SuccessFactors identity provider),                              *)
(*   - lms/djangoapps/django_comment_client/utils.py (the discussion       *)
(*     category map),                                                      *)
(*   - openedx/core/djangoapps/video_pipeline (the transcript credentials  *)
(*     client exercised by tests/test_api.py).                             *)
(* Python dicts are functions, lists are sequences, strings that are only  *)
(* compared for equality are TLA+ strings, strings that are split,         *)
(* stripped or ordered are sequences of ASCII codes.                       *)
(***************************************************************************)
EXTENDS Integers, Sequences, FiniteSets, TLC

VARIABLES
    \* ---- SAMLAuthBackend (saml.py 22-101) ----
    config_enabled,      \* self._config.enabled of the current site
    auth_url_call,       \* the last auth_url call: what it did and returned
    idp_conf,            \* idp.conf of the last _check_entitlements call
    attributes,          \* the SAML attributes of that call
    entitlement_call,    \* the last _check_entitlements call: its outcome
    \* ---- SapSuccessFactorsIdentityProvider.get_user_details (saml.py 249-325) ----
    sap_conf,            \* the keys present in self.conf
    sap_pc,              \* position of the running get_user_details call
    saml_details,        \* what the parent class get_user_details returned
    http_log,            \* every HTTP request issued by the call, in order
    session,             \* the requests.Session of get_odata_api_client
    client,              \* the session returned to get_user_details, if any
    sap_error,           \* the exception in flight, if any
    sap_log,             \* the log records written by the call
    sap_result,          \* what get_user_details returned or raised
    \* ---- SapSuccessFactorsIdentityProvider.value_mappings (saml.py 187-201) ----
    overrides,           \* self.conf.get('sapsf_value_mappings', {})
    vm_result,           \* what the property evaluated to, or what it raised
    \* ---- video_pipeline.api (tests/test_api.py) ----
    integration,         \* the VideoPipelineIntegration row
    users,               \* the usernames of the registered users
    video_call,          \* the last update_3rd_party_... call
    \* ---- django_comment_client.utils (utils.py 70-130) ----
    all_modules,         \* the discussion modules of the course, in dict order
    dict_order,          \* the iteration order of a dict of titles
    discussion_info,     \* _DISCUSSIONINFO
    \* ---- SAMLAuthBackend._create_saml_auth (saml.py 70-96) ----
    debug_mode,          \* SAMLProviderConfig.current(idp.name).debug_mode
    auth_inst,           \* the 'login' and 'process_response' attributes of auth_inst
    last_request_xml,    \* what auth_inst.get_last_request_xml() returns
    last_response_xml,   \* what auth_inst.get_last_response_xml() returns
    saml_call            \* the last call of a method of auth_inst: what happened, in order

saml_vars  == <<config_enabled, auth_url_call, idp_conf, attributes, entitlement_call>>
sap_vars   == <<sap_conf, sap_pc, saml_details, http_log, session, client,
                sap_error, sap_log, sap_result>>
vm_vars    == <<overrides, vm_result>>
video_vars == <<integration, users, video_call>>
disc_vars  == <<all_modules, dict_order, discussion_info>>
debug_vars == <<debug_mode, auth_inst, last_request_xml, last_response_xml, saml_call>>
vars == <<saml_vars, sap_vars, vm_vars, video_vars, disc_vars, debug_vars>>

\* Python's None where a string is expected, and where an object (a record
\* of the model) is expected.
None == "None"
NoneObject == [none |-> TRUE]

\* A Python dict with no keys.
EmptyDict == [k \in {} |-> None]

\* dict.get(key, default)
Get(dict, key, default) == IF key \in DOMAIN dict THEN dict[key] ELSE default

\* The sequences over S of length at most n.
SeqUpTo(S, n) == UNION {[1..k -> S] : k \in 0..n}

\* x in list
InList(x, list) == \E i \in 1..Len(list) : list[i] = x

(***************************************************************************)
(* SAMLAuthBackend                                                         *)
(***************************************************************************)

\* The redirect URLs the parent class SAMLAuth.auth_url may produce.
ParentAuthUrls == {"https://idp.example/sso?SAMLRequest=1", "https://idp.example/sso?SAMLRequest=2"}

\* The eduPersonEntitlement values of the model.
Entitlements == {"urn:staff", "urn:student", "urn:member"}

\* The longest list of entitlements (required, or held by the user).
MaxEntitlements == 2

OID_EDU_PERSON_ENTITLEMENT == "urn:oid:1.3.6.1.4.1.5923.1.1.1.7"

NoAuthUrlCall == [called |-> FALSE, raised |-> None, returned |-> None,
                  super_calls |-> 0, super_returned |-> None, log_error |-> 0]
NoEntitlementCall == [called |-> FALSE, raised |-> None, log_warning |-> <<>>]

\* The guard of saml.py 49 left out.
NeverDisabled(enabled) == FALSE

\* saml.py 49: "if not self._config.enabled"
Disabled(enabled) == ~enabled

\* SAMLAuthBackend.auth_url: the site's SAMLConfiguration is `enabled`, and
\* the parent's auth_url would return `url`.
auth_url(enabled, url) ==
    /\ config_enabled' = enabled
    /\ IF Disabled(enabled)
       THEN auth_url_call' = [called |-> TRUE, raised |-> "Http404", returned |-> None,
                              super_calls |-> 0, super_returned |-> None, log_error |-> 1]
       ELSE auth_url_call' = [called |-> TRUE, raised |-> None, returned |-> url,
                              super_calls |-> 1, super_returned |-> url, log_error |-> 0]
    /\ UNCHANGED <<idp_conf, attributes, entitlement_call>>

\* The test of saml.py 65 without its "not".
Held(expected, entitlements) == InList(expected, entitlements)

\* saml.py 65: "if expected not in entitlements"
Missing(expected, entitlements) == ~InList(expected, entitlements)

\* saml.py 64-68: the first required entitlement the user lacks, as the loop
\* finds it from position i on; None when the loop runs to its end.
RECURSIVE FirstMissing(_, _, _)
FirstMissing(required, entitlements, i) ==
    IF i > Len(required) THEN None
    ELSE IF Missing(required[i], entitlements) THEN required[i]
    ELSE FirstMissing(required, entitlements, i + 1)

\* SAMLAuthBackend._check_entitlements(idp, attributes)
_check_entitlements(conf, attrs) ==
    LET missing == IF "requiredEntitlements" \in DOMAIN conf
                   THEN FirstMissing(conf["requiredEntitlements"],
                                     Get(attrs, OID_EDU_PERSON_ENTITLEMENT, <<>>), 1)
                   ELSE None
    IN  /\ idp_conf' = conf
        /\ attributes' = attrs
        /\ entitlement_call' =
              IF missing # None
              THEN [called |-> TRUE, raised |-> "AuthForbidden", log_warning |-> <<missing>>]
              ELSE [called |-> TRUE, raised |-> None, log_warning |-> <<>>]
        /\ UNCHANGED <<config_enabled, auth_url_call>>

\* The dicts with at most the one key `key`, holding a list of entitlements.
EntitlementDicts(key) ==
    {EmptyDict} \cup {[k \in {key} |-> list] : list \in SeqUpTo(Entitlements, MaxEntitlements)}

\* The backend serves one call: auth_url or _check_entitlements.
AuthUrl ==
    /\ \E enabled \in BOOLEAN, url \in ParentAuthUrls : auth_url(enabled, url)
    /\ UNCHANGED <<sap_vars, vm_vars, video_vars, disc_vars, debug_vars>>

CheckEntitlements ==
    /\ \E conf \in EntitlementDicts("requiredEntitlements"),
          attrs \in EntitlementDicts(OID_EDU_PERSON_ENTITLEMENT) :
             _check_entitlements(conf, attrs)
    /\ UNCHANGED <<sap_vars, vm_vars, video_vars, disc_vars, debug_vars>>

(***************************************************************************)
(* SapSuccessFactorsIdentityProvider.get_user_details                      *)
(***************************************************************************)

\* saml.py 131-137
required_variables == <<"sapsf_oauth_root_url", "sapsf_private_key", "odata_api_root_url",
                        "odata_company_id", "odata_client_id">>

RequiredSet == {required_variables[i] : i \in 1..Len(required_variables)}

\* The details the parent class extracts from the SAML assertion.
SamlDetails == {[username |-> "alice"], [username |-> "bob"]}

\* What an endpoint may answer: an HTTP status, whether the body parses as
\* JSON, and the body (for a JSON body: the value of its one key).
Statuses == {200, 302, 500}
AssertionBodies == {[json |-> FALSE, key |-> None, text |-> "assertion-1"],
                    [json |-> FALSE, key |-> None, text |-> "assertion-2"]}
TokenBodies == {[json |-> TRUE, key |-> "access_token", text |-> "token-1"],
                [json |-> TRUE, key |-> "access_token", text |-> "token-2"],
                [json |-> TRUE, key |-> "error", text |-> "invalid_grant"],
                [json |-> FALSE, key |-> None, text |-> "<html>"]}
ODataBodies == {[json |-> TRUE, key |-> "d", text |-> "user-record"],
                [json |-> TRUE, key |-> "error", text |-> "not found"],
                [json |-> FALSE, key |-> None, text |-> "<html>"]}

Responses(bodies) == [status : Statuses, body : bodies]

\* requests.Response.ok, which is also the truth value of a Response
\* (saml.py 310 tests "if err.response"): no 4xx or 5xx status.
Ok(response) == response.status < 400

\* What session.post / session.get (saml.py 255, 267, 302) does: it returns
\* a response, or raises a RequestException.  ConnectionError and Timeout
\* carry no response; TooManyRedirects carries the last redirect response.
Exchanges(bodies) ==
      {[raised |-> None, response |-> r] : r \in Responses(bodies)}
 \cup {[raised |-> e, response |-> NoneObject] : e \in {"ConnectionError", "Timeout"}}
 \cup {[raised |-> "TooManyRedirects", response |-> r] :
          r \in {x \in Responses(bodies) : x.status = 302}}

\* The truth value of err.response (saml.py 310): None is false, and a
\* Response is true when it is ok.
ResponseIsTrue(response) == response # NoneObject /\ Ok(response)

\* What response.json() and the lookup of the expected key raise on a body
\* (saml.py 278, 307, 168): ValueError when it is not JSON, KeyError when the
\* key is not in it.
JsonError(body) == IF body.json THEN "KeyError" ELSE "ValueError"

\* The calls of raise_for_status left out.
NeverRaisesForStatus(response) == FALSE

\* response.raise_for_status() (saml.py 265, 277, 306): whether it raises HTTPError.
RaisesForStatus(response) == ~Ok(response)

\* The Authorization header of a session that has none.
NoAuthorization == [scheme |-> None, token |-> None]

NoSession == [open |-> FALSE, Authorization |-> NoAuthorization]
NoError == [type |-> None, response |-> NoneObject]
NoResult == [kind |-> None, value |-> NoneObject, exception |-> None]
Returned(value) == [kind |-> "returned", value |-> value, exception |-> None]
Raised(exception) == [kind |-> "raised", value |-> NoneObject, exception |-> exception]

\* missing_variables with any() for the all() of saml.py 240.
missing_variables_any(conf) ==
    IF ~(\E i \in 1..Len(required_variables) : required_variables[i] \in conf)
    THEN required_variables ELSE <<>>

\* saml.py 234-247: the list of the missing variables, or None.  The one
\* caller tests the result for truth only, and None is the empty list here.
missing_variables(conf) ==
    IF ~(\A i \in 1..Len(required_variables) : required_variables[i] \in conf)
    THEN SelectSeq(required_variables, LAMBDA var : var \notin conf)
    ELSE <<>>

\* The truth value of a list (saml.py 289).
Truthy(list) == list # <<>>

\* saml.py 288-293: the call starts with the parent's details; with a
\* variable missing it returns them, otherwise get_odata_api_client starts
\* with a fresh session (saml.py 254).
GetUserDetailsBegin ==
    /\ sap_pc \in {"idle", "done"}
    /\ \E conf \in SUBSET RequiredSet, details \in SamlDetails :
          LET missing == missing_variables(conf) IN
          /\ sap_conf' = conf
          /\ saml_details' = details
          /\ http_log' = <<>>
          /\ client' = NoneObject
          /\ sap_error' = NoError
          /\ IF Truthy(missing)
             THEN /\ sap_log' = <<[level |-> "warning", what |-> "missing", sys_msg |-> None]>>
                  /\ sap_result' = Returned(details)
                  /\ session' = NoSession
                  /\ sap_pc' = "done"
             ELSE /\ sap_log' = <<>>
                  /\ sap_result' = NoResult
                  /\ session' = [open |-> TRUE, Authorization |-> NoAuthorization]
                  /\ sap_pc' = "post_idp"
    /\ UNCHANGED <<saml_vars, vm_vars, video_vars, disc_vars, debug_vars>>

\* One HTTP exchange as the log keeps it: the request and what came back.
Exchange(method, url, assertion, x) ==
    [method |-> method, url |-> url, assertion |-> assertion,
     Authorization |-> session.Authorization, raised |-> x.raised, response |-> x.response]

\* The exception an exchange ends in: the one session.post/get raised, or
\* the HTTPError of raise_for_status; NoError when the response is good.
ErrorOf(x) ==
    IF x.raised # None THEN [type |-> x.raised, response |-> x.response]
    ELSE IF RaisesForStatus(x.response) THEN [type |-> "HTTPError", response |-> x.response]
    ELSE NoError

\* saml.py 255-266: the assertion POST to sapsf_idp_url.
PostAssertion ==
    /\ sap_pc = "post_idp"
    /\ \E x \in Exchanges(AssertionBodies) :
          /\ http_log' = Append(http_log, Exchange("POST", "idp", None, x))
          /\ sap_error' = ErrorOf(x)
          /\ sap_pc' = IF ErrorOf(x) # NoError THEN "except" ELSE "post_token"
    /\ UNCHANGED <<sap_conf, saml_details, session, client, sap_log, sap_result>>
    /\ UNCHANGED <<saml_vars, vm_vars, video_vars, disc_vars, debug_vars>>

\* The assertion the token POST sends: the text of the idp's response (saml.py 266, 273).
AssertionText == http_log[Len(http_log)].response.body.text

\* saml.py 267-280: the token POST; a good response gives the session its
\* Authorization header and the session goes back to get_user_details.
\* token.json()['access_token'] raises ValueError or KeyError on a body
\* that is not the expected JSON; neither is a RequestException.
PostToken ==
    /\ sap_pc = "post_token"
    /\ \E x \in Exchanges(TokenBodies) :
          /\ http_log' = Append(http_log, Exchange("POST", "token", AssertionText, x))
          /\ IF ErrorOf(x) # NoError
             THEN /\ sap_error' = ErrorOf(x)
                  /\ sap_pc' = "except"
                  /\ UNCHANGED <<session, client, sap_result>>
             ELSE IF ~x.response.body.json \/ x.response.body.key # "access_token"
             THEN /\ sap_error' = [type |-> JsonError(x.response.body), response |-> NoneObject]
                  /\ sap_result' = Raised(JsonError(x.response.body))
                  /\ sap_pc' = "done"
                  /\ UNCHANGED <<session, client>>
             ELSE /\ session' = [open |-> TRUE,
                               Authorization |-> [scheme |-> "Bearer", token |-> x.response.body.text]]
                  /\ client' = session'
                  /\ sap_pc' = "get_odata"
                  /\ UNCHANGED <<sap_error, sap_result>>
    /\ UNCHANGED <<sap_conf, saml_details, sap_log>>
    /\ UNCHANGED <<saml_vars, vm_vars, video_vars, disc_vars, debug_vars>>

\* saml.py 302-307 and 325: the OData GET through the client, and the
\* registration fields of its JSON body.
GetOData ==
    /\ sap_pc = "get_odata"
    /\ \E x \in Exchanges(ODataBodies) :
          /\ http_log' = Append(http_log,
                [Exchange("GET", "odata", None, x) EXCEPT !.Authorization = client.Authorization])
          /\ IF ErrorOf(x) # NoError
             THEN /\ sap_error' = ErrorOf(x)
                  /\ sap_pc' = "except"
                  /\ UNCHANGED sap_result
             ELSE IF ~x.response.body.json \/ x.response.body.key # "d"
             THEN /\ sap_error' = [type |-> JsonError(x.response.body), response |-> NoneObject]
                  /\ sap_result' = Raised(JsonError(x.response.body))
                  /\ sap_pc' = "done"
             ELSE /\ sap_result' = Returned([registration_fields |-> x.response.body.text])
                  /\ sap_pc' = "done"
                  /\ UNCHANGED sap_error
    /\ UNCHANGED <<sap_conf, saml_details, session, client, sap_log>>
    /\ UNCHANGED <<saml_vars, vm_vars, video_vars, disc_vars, debug_vars>>

\* saml.py 308-323: the handler of requests.RequestException.  The system
\* message is err.response.json() when err.response is true, and that call
\* raises ValueError on a body that is not JSON.
ExceptRequestException ==
    /\ sap_pc = "except"
    /\ IF ResponseIsTrue(sap_error.response)
       THEN IF sap_error.response.body.json
            THEN /\ sap_log' = Append(sap_log, [level |-> "warning", what |-> sap_error.type,
                                                sys_msg |-> sap_error.response.body.text])
                 /\ sap_result' = Returned(saml_details)
            ELSE /\ sap_result' = Raised("ValueError")
                 /\ UNCHANGED sap_log
       ELSE /\ sap_log' = Append(sap_log, [level |-> "warning", what |-> sap_error.type,
                                           sys_msg |-> "Not available"])
            /\ sap_result' = Returned(saml_details)
    /\ sap_pc' = "done"
    /\ UNCHANGED <<sap_conf, saml_details, http_log, session, client, sap_error>>
    /\ UNCHANGED <<saml_vars, vm_vars, video_vars, disc_vars, debug_vars>>


(***************************************************************************)
(* SapSuccessFactorsIdentityProvider.value_mappings                        *)
(***************************************************************************)

\* A value of a Python dict that holds strings and dicts side by side.
Str(s) == [type |-> "str", str |-> s, dict |-> EmptyDict]
Dict(d) == [type |-> "dict", str |-> None, dict |-> d]

\* django_countries' (code, name) pairs, two of them.
countries == {<<"CA", "Canada">>, <<"FR", "France">>}

\* dict.update: base with every pair of other, other winning.
Update(base, other) ==
    [k \in DOMAIN base \cup DOMAIN other |-> IF k \in DOMAIN other THEN other[k] ELSE base[k]]

\* saml.py 153-161: the class attribute after the class body has run.  The
\* update() of line 159 adds the key 'United States' beside 'country'.
default_value_mapping ==
    Update([f \in {"country"} |->
               Dict([name \in {c[2] : c \in countries} |->
                        (CHOOSE c \in countries : c[2] = name)[1]])],
           [f \in {"United States"} |-> Str("US")])

\* The field names, SAP SuccessFactors values and Open edX values of the
\* overrides of the model.
OverrideFields == {"country", "city", "level_of_education"}
SapsfValues == {"Canada", "city"}
EdxValues == {"CA", "XX"}

\* The well-formed 'sapsf_value_mappings': field -> {SAPSF value -> edX value}.
ValueDicts == UNION {[keys -> EdxValues] : keys \in SUBSET SapsfValues}
OverrideDicts == UNION {[fields -> ValueDicts] : fields \in SUBSET OverrideFields}

\* The orders in which a dict with the keys S may be iterated.
Orders(S) == {o \in [1..Cardinality(S) -> S] : \A i, j \in DOMAIN o : i # j => o[i] # o[j]}

\* saml.py 196-200: the loop over overrides.items() in the order `order`,
\* from `base` on.  str has no update() (AttributeError), and
\* override[field] looks the field's own name up in the field's override.
RECURSIVE ApplyOverrides(_, _, _)
ApplyOverrides(base, ovr, order) ==
    IF order = <<>> THEN [raised |-> None, value |-> base]
    ELSE LET field == Head(order)
             override == ovr[field]
         IN  IF field \in DOMAIN base
             THEN IF base[field].type = "dict"
                  THEN ApplyOverrides(
                          [base EXCEPT ![field] = Dict(Update(base[field].dict, override))],
                          ovr, Tail(order))
                  ELSE [raised |-> "AttributeError", value |-> EmptyDict]
             ELSE IF field \in DOMAIN override
                  THEN ApplyOverrides(Update(base, [f \in {field} |-> Str(override[field])]),
                                      ovr, Tail(order))
                  ELSE [raised |-> "KeyError", value |-> EmptyDict]

NoVmResult == [called |-> FALSE, raised |-> None, value |-> EmptyDict]

\* The provider is configured, once, with well-formed 'sapsf_value_mappings'.
ConfigureOverrides ==
    /\ overrides = EmptyDict /\ ~vm_result.called
    /\ \E conf \in OverrideDicts : overrides' = conf
    /\ vm_result' = NoVmResult
    /\ UNCHANGED <<saml_vars, sap_vars, video_vars, disc_vars, debug_vars>>

\* SapSuccessFactorsIdentityProvider.value_mappings (saml.py 187-201), base
\* being a deepcopy of the class attribute and the overrides coming in any
\* dict order.
value_mappings ==
    /\ \E order \in Orders(DOMAIN overrides) :
          LET r == ApplyOverrides(default_value_mapping, overrides, order)
          IN  vm_result' = [called |-> TRUE, raised |-> r.raised, value |-> r.value]
    /\ UNCHANGED overrides
    /\ UNCHANGED <<saml_vars, sap_vars, video_vars, disc_vars, debug_vars>>

(***************************************************************************)
(* video_pipeline.api.update_3rd_party_transcription_service_credentials   *)
(***************************************************************************)

ServiceUsernames == {"veda_service_user", "non_existent_user"}

\* The keyword arguments of the tests, and values for them.
CredentialKeys == {"username", "api_key", "api_secret"}
CredentialValues == {"12345678", "11111111"}
Payloads == UNION {[keys -> CredentialValues] : keys \in SUBSET CredentialKeys}

\* What the POST to transcript_credentials does: it succeeds, or raises
\* HttpClientError with a content.
PostOutcomes == {[raised |-> None, content |-> None],
                 [raised |-> "HttpClientError", content |-> "invalid_credentials"]}

NoVideoCall == [called |-> FALSE, payload |-> EmptyDict, outcome |-> "not sent", posts |-> <<>>,
                log_exception |-> <<>>, is_updated |-> FALSE, raised |-> None]

\* test_api.py 29-30 and 38-39: the integration row is changed and saved.
SaveIntegration ==
    /\ \E enabled \in BOOLEAN, name \in ServiceUsernames :
          integration' = [enabled |-> enabled, service_username |-> name]
    /\ video_call' = NoVideoCall
    /\ UNCHANGED users
    /\ UNCHANGED <<saml_vars, sap_vars, vm_vars, disc_vars, debug_vars>>

\* A client whatever the integration says.
AlwaysPipelineClient == TRUE

\* Whether the call gets a client for the pipeline: the integration is
\* enabled and its service user is registered.
PipelineClient == integration.enabled /\ integration.service_username \in users

\* The POST outside any try.
NeverCaught(outcome) == FALSE

\* Whether the POST raised HttpClientError, which the call catches.
Caught(outcome) == outcome.raised = "HttpClientError"

\* update_3rd_party_transcription_service_credentials(**payload), the POST
\* ending as `outcome` when it is sent.
update_3rd_party_transcription_service_credentials(payload, outcome) ==
    /\ IF ~PipelineClient
       THEN video_call' = [called |-> TRUE, payload |-> payload, outcome |-> "not sent",
                           posts |-> <<>>, log_exception |-> <<>>, is_updated |-> FALSE,
                           raised |-> None]
       ELSE IF Caught(outcome)
       THEN video_call' = [called |-> TRUE, payload |-> payload, outcome |-> outcome.raised,
                           posts |-> <<payload>>, log_exception |-> <<outcome.content>>,
                           is_updated |-> FALSE, raised |-> None]
       ELSE video_call' = [called |-> TRUE, payload |-> payload, outcome |-> outcome.raised,
                           posts |-> <<payload>>, log_exception |-> <<>>,
                           is_updated |-> outcome.raised = None, raised |-> outcome.raised]
    /\ UNCHANGED <<integration, users>>

UpdateCredentials ==
    /\ \E payload \in Payloads, outcome \in PostOutcomes :
          update_3rd_party_transcription_service_credentials(payload, outcome)
    /\ UNCHANGED <<saml_vars, sap_vars, vm_vars, disc_vars, debug_vars>>

(***************************************************************************)
(* django_comment_client.utils                                             *)
(***************************************************************************)


(***************************************************************************)
(* django_comment_client.utils                                             *)
(***************************************************************************)

\* The most modules a course of the model has.
MaxModules == 2

\* Strings are sequences of ASCII codes: the titles "a" and "b", the sort
\* key "c", the discussion ids "1", "2", ..., and " / ".
Titles == {<<97>>, <<98>>}
SortKeys == {<<99>>}
Ids == {<<48 + i>> : i \in 1..MaxModules}
Separator == <<32, 47, 32>>

\* The 'discussion_category' values of the model:
\* "a", " a ", "a/b", "a / b", "b".
CategoryStrings == {<<97>>, <<32, 97, 32>>, <<97, 47, 98>>, <<97, 32, 47, 32, 98>>, <<98>>}

\* The keys the dicts of the category map can have: titles and the names
\* of categories.
DictKeys == Titles

\* str.split("/") (utils.py 100, 107)
RECURSIVE Split(_)
Split(str) ==
    LET at == {i \in 1..Len(str) : str[i] = 47}
    IN  IF at = {} THEN <<str>>
        ELSE LET i == CHOOSE n \in at : \A m \in at : n <= m
             IN  <<SubSeq(str, 1, i - 1)>> \o Split(SubSeq(str, i + 1, Len(str)))

\* str.strip() (utils.py 100, 107)
Strip(str) ==
    LET kept == {i \in 1..Len(str) : str[i] \notin {9, 10, 11, 12, 13, 32}}
    IN  IF kept = {} THEN <<>>
        ELSE SubSeq(str, CHOOSE n \in kept : \A m \in kept : n <= m,
                         CHOOSE n \in kept : \A m \in kept : n >= m)

\* " / ".join(list) (utils.py 100)
RECURSIVE Join(_)
Join(list) ==
    IF list = <<>> THEN <<>>
    ELSE IF Len(list) = 1 THEN list[1]
    ELSE list[1] \o Separator \o Join(Tail(list))

\* [x.strip() for x in str.split("/")] (utils.py 100, 107)
StrippedSegments(str) == LET parts == Split(str) IN [i \in 1..Len(parts) |-> Strip(parts[i])]

\* s <= t for two Python 2 byte strings: lexicographic, a prefix first.
RECURSIVE StrLessEq(_, _)
StrLessEq(s, t) ==
    IF s = <<>> THEN TRUE
    ELSE IF t = <<>> THEN FALSE
    ELSE IF s[1] # t[1] THEN s[1] < t[1]
    ELSE StrLessEq(Tail(s), Tail(t))

\* The metadata of a discussion module: 'sort_key' is optional.
Metadata ==
    {[k \in {"id", "discussion_category", "for"} |->
         CASE k = "id" -> id [] k = "discussion_category" -> category [] k = "for" -> title] :
       id \in Ids, category \in CategoryStrings, title \in Titles}
 \cup
    {[k \in {"id", "discussion_category", "for", "sort_key"} |->
         CASE k = "id" -> id [] k = "discussion_category" -> category [] k = "for" -> title
           [] k = "sort_key" -> sort_key] :
       id \in Ids, category \in CategoryStrings, title \in Titles, sort_key \in SortKeys}

\* A module of the course: its location's category, and its metadata.
Modules == {[category |-> "discussion", metadata |-> m] : m \in Metadata}
      \cup {[category |-> "html", metadata |-> EmptyDict]}

\* utils.py 110-112, 117-119: a new node of the category map.
NewNode(level) == [subcategories |-> EmptyDict, entries |-> EmptyDict, sort_key |-> level]

\* utils.py 93-102, one iteration: the module at position `location` goes
\* into discussion_id_map and unexpanded_category_map (the pair `maps`).
AddModule(maps, location) ==
    LET module == all_modules[location] IN
    IF module.category # "discussion" THEN maps
    ELSE LET id == module.metadata["id"]
             title == module.metadata["for"]
             sort_key == Get(module.metadata, "sort_key", title)
             category == Join(StrippedSegments(module.metadata["discussion_category"]))
             entry == [title |-> title, id |-> id, sort_key |-> sort_key]
         IN  [discussion_id_map |->
                 Update(maps.discussion_id_map,
                        [k \in {id} |-> [location |-> location, title |-> title]]),
              unexpanded_category_map |->
                 Update(maps.unexpanded_category_map,
                        [k \in {category} |->
                            Append(Get(maps.unexpanded_category_map, category, <<>>), entry)])]

\* utils.py 91-102: the loop over all_modules.items(), from position i on.
RECURSIVE AddModules(_, _)
AddModules(maps, i) ==
    IF i > Len(all_modules) THEN maps ELSE AddModules(AddModule(maps, i), i + 1)

\* utils.py 120-122: the entries of one category go into the node's
\* 'entries', keyed by title.
AddEntry(dict, entry) ==
    Update(dict, [k \in {entry.title} |-> [id |-> entry.id, sort_key |-> entry.sort_key]])

RECURSIVE AddEntries(_, _)
AddEntries(dict, entries) ==
    IF entries = <<>> THEN dict ELSE AddEntries(AddEntry(dict, Head(entries)), Tail(entries))

\* utils.py 106-122: the walk down `path` from the dict `node`, creating
\* the levels that are not there, and the entries put at its end.
RECURSIVE InsertAt(_, _, _)
InsertAt(node, path, entries) ==
    LET level == Head(path)
        at == IF level \in DOMAIN node THEN node[level] ELSE NewNode(level)
    IN  IF Len(path) = 1
        THEN Update(node, [k \in {level} |->
                              [at EXCEPT !.entries = AddEntries(at.entries, entries)]])
        ELSE Update(node, [k \in {level} |->
                              [at EXCEPT !.subcategories =
                                  InsertAt(at.subcategories, Tail(path), entries)]])

\* utils.py 104-122: the loop over unexpanded_category_map.items(), over
\* the categories `todo`.  Two categories have two paths, so the order in
\* which the dict yields them does not change the result.
RECURSIVE Expand(_, _, _)
Expand(subcategories, unexpanded, todo) ==
    IF todo = {} THEN subcategories
    ELSE LET category_path == CHOOSE c \in todo : TRUE
         IN  Expand(InsertAt(subcategories, StrippedSegments(category_path),
                             unexpanded[category_path]),
                    unexpanded, todo \ {category_path})

\* dict.items() of `dict` as (key, value) pairs, in the order `order` gives
\* to the keys.
Items(dict, order) ==
    LET keys == SelectSeq(order, LAMBDA k : k \in DOMAIN dict)
    IN  [i \in 1..Len(keys) |-> <<keys[i], dict[keys[i]]>>]

\* The things sorted by their titles.
TitleAsSortKey(thing) == thing[1]

\* utils.py 77: key=lambda x: x[1]["sort_key"]
SortKey(thing) == thing[2].sort_key

\* sorted(things, key=...): Python's sort is stable, so a thing goes behind
\* the things sorted so far whose key is not greater.
RECURSIVE Sorted(_)
Sorted(things) ==
    IF things = <<>> THEN <<>>
    ELSE LET n == Len(things)
             front == Sorted(SubSeq(things, 1, n - 1))
             last == things[n]
             before == {i \in 1..Len(front) : StrLessEq(SortKey(front[i]), SortKey(last))}
             k == IF before = {} THEN 0 ELSE CHOOSE i \in before : \A j \in before : j <= i
         IN  SubSeq(front, 1, k) \o <<last>> \o SubSeq(front, k + 1, Len(front))

\* sort_map_entries (utils.py 70-77): the map with 'children' set at this
\* node and at every subcategory below it.
RECURSIVE sort_map_entries(_, _)
sort_map_entries(category_map, order) ==
    LET things == Items(category_map.entries, order) \o Items(category_map.subcategories, order)
        sorted == Sorted(things)
        subs == [title \in DOMAIN category_map.subcategories |->
                    sort_map_entries(category_map.subcategories[title], order)]
    IN  [k \in DOMAIN category_map \cup {"children"} |->
            CASE k = "children" -> [i \in 1..Len(sorted) |-> sorted[i][1]]
              [] k = "subcategories" -> subs
              [] OTHER -> category_map[k]]

\* The modulestore holds the course's modules (utils.py 89, 93): any
\* modules, each discussion with an id of its own, which
\* all_modules.items() yields in any order, and the dicts of the category
\* map iterate their keys in the order dict_order.
LoadCourse ==
    /\ all_modules = <<>> /\ discussion_info = NoneObject
    /\ \E modules \in SeqUpTo(Modules, MaxModules) \ {<<>>}, order \in Orders(DictKeys) :
          /\ \A i, j \in DOMAIN modules :
                (i # j /\ modules[i].category = "discussion" /\ modules[j].category = "discussion")
                   => modules[i].metadata["id"] # modules[j].metadata["id"]
          /\ all_modules' = modules
          /\ dict_order' = order
    /\ UNCHANGED discussion_info
    /\ UNCHANGED <<saml_vars, sap_vars, vm_vars, video_vars, debug_vars>>

\* initialize_discussion_info (utils.py 80-130)
initialize_discussion_info ==
    /\ all_modules # <<>>
    /\ IF discussion_info # NoneObject
       THEN UNCHANGED discussion_info
       ELSE LET maps == AddModules([discussion_id_map |-> EmptyDict,
                                    unexpanded_category_map |-> EmptyDict], 1)
                category_map ==
                    [entries |-> EmptyDict,
                     subcategories |-> Expand(EmptyDict, maps.unexpanded_category_map,
                                              DOMAIN maps.unexpanded_category_map)]
            IN  discussion_info' =
                   [id_map |-> maps.discussion_id_map,
                    category_map |-> sort_map_entries(category_map, dict_order)]
    /\ UNCHANGED <<all_modules, dict_order>>
    /\ UNCHANGED <<saml_vars, sap_vars, vm_vars, video_vars, debug_vars>>

(***************************************************************************)
(* SAMLAuthBackend._create_saml_auth                                       *)
(***************************************************************************)

\* The two methods of OneLogin_Saml2_Auth that saml.py 93-94 name.
MethodNames == {"login", "process_response"}

\* The arguments a method is called with, the results the original methods
\* return, what they raise, and the XML documents they leave behind.
Arguments == {"args-1", "args-2"}
MethodResults == {"result-1", "result-2"}
MethodErrors == {"OneLogin_Saml2_Error"}
XmlDocuments == {"<xml-1/>", "<xml-2/>"}

\* An attribute of auth_inst as the parent class leaves it: the method of
\* OneLogin_Saml2_Auth itself.
OriginalMethod(method_name) ==
    [wrapped |-> FALSE, method |-> method_name, action_description |-> None, xml_getter |-> None]

\* saml.py 78: the instance the parent's _create_saml_auth returns.
ParentAuthInst == [method_name \in MethodNames |-> OriginalMethod(method_name)]

\* Every wrapper bound to the method of the last wrap_with_logging call.
LateBound(inst, method_name) == inst["process_response"].method

\* saml.py 84: method = getattr(auth_inst, method_name), a local of its own
\* wrap_with_logging call.
Captured(inst, method_name) == inst[method_name].method

\* wrap_with_logging (saml.py 82-91): the attribute method_name of the
\* instance becomes wrapped_method, closed over the method it had, the
\* description and the getter.
wrap_with_logging(inst, method_name, action_description, xml_getter) ==
    [inst EXCEPT ![method_name] =
        [wrapped |-> TRUE, method |-> Captured(inst, method_name),
         action_description |-> action_description, xml_getter |-> xml_getter]]

NoSamlCall == [called |-> FALSE, method_name |-> None, args |-> None, trace |-> <<>>,
               returned |-> None, raised |-> None]

\* SAMLAuthBackend._create_saml_auth(idp) (saml.py 70-96), the provider's
\* debug_mode being `debug`: a new instance for the current request.
_create_saml_auth(debug) ==
    /\ debug_mode' = debug
    /\ auth_inst' =
          IF debug
          THEN wrap_with_logging(
                  wrap_with_logging(ParentAuthInst, "login", "request", "get_last_request_xml"),
                  "process_response", "response", "get_last_response_xml")
          ELSE ParentAuthInst
    /\ last_request_xml' = None
    /\ last_response_xml' = None
    /\ saml_call' = NoSamlCall

CreateSamlAuth ==
    /\ \E debug \in BOOLEAN : _create_saml_auth(debug)
    /\ UNCHANGED <<saml_vars, sap_vars, vm_vars, video_vars, disc_vars>>

\* What a call of an original method does: it returns a result and leaves
\* its XML behind (login the request, process_response the response), or
\* it raises.
MethodOutcomes ==
      [raised : {None}, value : MethodResults, xml : XmlDocuments]
 \cup [raised : MethodErrors, value : {None}, xml : {None}]

\* saml.py 89: log.info(..., action_description, idp.name, xml_getter()),
\* the getter reading what the instance holds when the line runs.
LogInfo(attribute, request_xml, response_xml) ==
    <<[event |-> "log", action_description |-> attribute.action_description,
       xml |-> IF attribute.xml_getter = "get_last_request_xml"
               THEN request_xml ELSE response_xml]>>

\* auth_inst.<method_name>(args): the attribute is the original method, or
\* wrapped_method (saml.py 86-90), which calls the method it closed over,
\* then logs, then returns the result; an exception of the method leaves
\* wrapped_method at line 88.
call_method(method_name, args, outcome) ==
    LET attribute == auth_inst[method_name]
        request_xml == IF attribute.method = "login" /\ outcome.raised = None
                       THEN outcome.xml ELSE last_request_xml
        response_xml == IF attribute.method = "process_response" /\ outcome.raised = None
                        THEN outcome.xml ELSE last_response_xml
        called == <<[event |-> "call", method |-> attribute.method, args |-> args]>>
    IN  /\ last_request_xml' = request_xml
        /\ last_response_xml' = response_xml
        /\ IF outcome.raised # None
           THEN saml_call' = [called |-> TRUE, method_name |-> method_name, args |-> args,
                              trace |-> called \o <<[event |-> "raise", value |-> outcome.raised]>>,
                              returned |-> None, raised |-> outcome.raised]
           ELSE saml_call' = [called |-> TRUE, method_name |-> method_name, args |-> args,
                              trace |-> called
                                        \o <<[event |-> "return", value |-> outcome.value]>>
                                        \o (IF attribute.wrapped
                                            THEN LogInfo(attribute, request_xml, response_xml)
                                            ELSE <<>>),
                              returned |-> outcome.value, raised |-> None]
        /\ UNCHANGED <<debug_mode, auth_inst>>

CallAuthMethod ==
    /\ auth_inst # NoneObject
    /\ \E method_name \in MethodNames, args \in Arguments, outcome \in MethodOutcomes :
          call_method(method_name, args, outcome)
    /\ UNCHANGED <<saml_vars, sap_vars, vm_vars, video_vars, disc_vars>>

(***************************************************************************)
(* Specifications: one per component, the other components staying as      *)
(* they start.                                                             *)
(***************************************************************************)

\* The state after construction: no call made yet; the video pipeline as
\* test_api.py 21-23 (setUp) leaves it, an enabled integration whose
\* service user is registered; _DISCUSSIONINFO = None (utils.py 24).
Init ==
    /\ config_enabled = TRUE
    /\ auth_url_call = NoAuthUrlCall
    /\ idp_conf = EmptyDict
    /\ attributes = EmptyDict
    /\ entitlement_call = NoEntitlementCall
    /\ sap_conf = RequiredSet
    /\ sap_pc = "idle"
    /\ saml_details = NoneObject
    /\ http_log = <<>>
    /\ session = NoSession
    /\ client = NoneObject
    /\ sap_error = NoError
    /\ sap_log = <<>>
    /\ sap_result = NoResult
    /\ overrides = EmptyDict
    /\ vm_result = NoVmResult
    /\ integration = [enabled |-> TRUE, service_username |-> "veda_service_user"]
    /\ users = {"veda_service_user"}
    /\ video_call = NoVideoCall
    /\ all_modules = <<>>
    /\ dict_order = <<>>
    /\ discussion_info = NoneObject
    /\ debug_mode = FALSE
    /\ auth_inst = NoneObject
    /\ last_request_xml = None
    /\ last_response_xml = None
    /\ saml_call = NoSamlCall

SamlNext == AuthUrl \/ CheckEntitlements
SpecSaml == Init /\ [][SamlNext]_vars

SapNext == GetUserDetailsBegin \/ PostAssertion \/ PostToken \/ GetOData \/ ExceptRequestException
SpecSap == Init /\ [][SapNext]_vars

VmNext == ConfigureOverrides \/ value_mappings
SpecValueMappings == Init /\ [][VmNext]_vars

VideoNext == SaveIntegration \/ UpdateCredentials
SpecVideo == Init /\ [][VideoNext]_vars

DiscussionNext == LoadCourse \/ initialize_discussion_info
SpecDiscussion == Init /\ [][DiscussionNext]_vars

DebugNext == CreateSamlAuth \/ CallAuthMethod
SpecDebug == Init /\ [][DebugNext]_vars

(***************************************************************************)
(* The claims                                                              *)
(***************************************************************************)

\* The exceptions of requests that derive from requests.RequestException.
RequestExceptions == {"ConnectionError", "Timeout", "TooManyRedirects", "HTTPError"}

\* An exchange of the log that returned a response with a success status.
Succeeded(x) == x.raised = None /\ x.response.status < 400

Bearer(token) == [scheme |-> "Bearer", token |-> token]

\* C1: when one of the five required variables is absent from the conf,
\* get_user_details returns exactly the parent's details from the SAML
\* assertion and issues no HTTP request.
C1_MissingVariableNoRequest ==
    (sap_pc # "idle" /\ RequiredSet \ sap_conf # {}) =>
        /\ sap_pc = "done"
        /\ sap_result = Returned(saml_details)
        /\ http_log = <<>>

C1_Witness ==
    /\ sap_pc = "done"
    /\ Cardinality(sap_conf) = 4
    /\ sap_result = Returned(saml_details)
    /\ http_log = <<>>

\* C2: with all required variables configured, when one of the three HTTP
\* exchanges fails with a requests.RequestException, the error is logged
\* and get_user_details returns the details from the SAML assertion; it
\* does not raise, whether or not the exception carries a response.
C2_RequestExceptionReturnsDetails ==
    (sap_pc = "done" /\ sap_error.type \in RequestExceptions) =>
        /\ sap_result = Returned(saml_details)
        /\ sap_log # <<>>
        /\ sap_log[Len(sap_log)].level = "warning"

\* C3: the requests are strictly ordered: the assertion POST first, the
\* token POST only after the assertion POST returned a success status and
\* with that response's text as its assertion, the Authorization header
\* only after the token POST returned a success status; after a failed POST
\* no later request is sent and no session goes back to the caller, so the
\* OData GET is never issued without the bearer token.
C3_RequestsOrdered ==
    /\ Len(http_log) <= 3
    /\ \A i \in 1..Len(http_log) :
          /\ http_log[i].url = <<"idp", "token", "odata">>[i]
          /\ http_log[i].method = <<"POST", "POST", "GET">>[i]
          /\ i < Len(http_log) => Succeeded(http_log[i])
          /\ i = 1 => http_log[i].Authorization = NoAuthorization
          /\ i = 2 => /\ http_log[i].assertion = http_log[1].response.body.text
                      /\ http_log[i].Authorization = NoAuthorization
          /\ i = 3 => http_log[i].Authorization = Bearer(http_log[2].response.body.text)
    /\ (session.Authorization # NoAuthorization \/ client # NoneObject) =>
          /\ Len(http_log) >= 2
          /\ Succeeded(http_log[1])
          /\ Succeeded(http_log[2])
          /\ session.Authorization = Bearer(http_log[2].response.body.text)
          /\ client = session

C3_Witness ==
    /\ Len(http_log) = 3
    /\ http_log[3].url = "odata"
    /\ http_log[3].Authorization = Bearer("token-2")
    /\ http_log[2].assertion = "assertion-2"

\* C4: auth_url raises Http404 without invoking the parent's auth_url when
\* the site's SAMLConfiguration is not enabled, and returns exactly the
\* parent's result when it is.
C4_AuthUrlOnlyWhenEnabled ==
    auth_url_call.called =>
        IF config_enabled
        THEN /\ auth_url_call.raised = None
             /\ auth_url_call.super_calls = 1
             /\ auth_url_call.returned = auth_url_call.super_returned
             /\ auth_url_call.returned \in ParentAuthUrls
        ELSE /\ auth_url_call.raised = "Http404"
             /\ auth_url_call.super_calls = 0
             /\ auth_url_call.returned = None

C4_Witness ==
    /\ auth_url_call.called
    /\ ~config_enabled
    /\ auth_url_call.raised = "Http404"

\* C5: _check_entitlements raises AuthForbidden if and only if the conf
\* has 'requiredEntitlements' and one of the entitlements listed there is
\* not among the user's eduPersonEntitlement values (none when the
\* attribute is absent).
C5_ForbiddenIffEntitlementMissing ==
    entitlement_call.called =>
        ((entitlement_call.raised = "AuthForbidden") <=>
            /\ "requiredEntitlements" \in DOMAIN idp_conf
            /\ \E i \in DOMAIN idp_conf["requiredEntitlements"] :
                  LET held == Get(attributes, OID_EDU_PERSON_ENTITLEMENT, <<>>)
                  IN  idp_conf["requiredEntitlements"][i] \notin {held[j] : j \in DOMAIN held})

C5_Witness ==
    /\ entitlement_call.called
    /\ entitlement_call.raised = "AuthForbidden"
    /\ OID_EDU_PERSON_ENTITLEMENT \in DOMAIN attributes
    /\ Len(attributes[OID_EDU_PERSON_ENTITLEMENT]) = 2
    /\ Len(idp_conf["requiredEntitlements"]) = 2
    /\ InList(idp_conf["requiredEntitlements"][1], attributes[OID_EDU_PERSON_ENTITLEMENT])

C7_PostsPayloadAndReportsOutcome ==
    (video_call.called /\ integration.enabled /\ integration.service_username \in users) =>
        /\ video_call.posts = <<video_call.payload>>
        /\ video_call.raised = None
        /\ video_call.outcome = None =>
              video_call.is_updated /\ video_call.log_exception = <<>>
        /\ video_call.outcome = "HttpClientError" =>
              ~video_call.is_updated /\ video_call.log_exception = <<"invalid_credentials">>

C7_Witness ==
    /\ video_call.called
    /\ video_call.outcome = "HttpClientError"
    /\ DOMAIN video_call.payload = {"api_key", "api_secret"}
    /\ video_call.posts = <<video_call.payload>>
    /\ ~video_call.is_updated

\* C8: for every field of the 'sapsf_value_mappings' overrides, the mapping
\* value_mappings returns for that field holds every pair of the field's
\* override, for a field with a default mapping and for one without, and
\* the call does not raise on a well-formed override dict.
C8_OverridesInValueMappings ==
    vm_result.called =>
        /\ vm_result.raised = None
        /\ \A field \in DOMAIN overrides :
              /\ field \in DOMAIN vm_result.value
              /\ vm_result.value[field].type = "dict"
              /\ \A k \in DOMAIN overrides[field] :
                    /\ k \in DOMAIN vm_result.value[field].dict
                    /\ vm_result.value[field].dict[k] = overrides[field][k]

\* The nodes of the category map below and with `node`, each with its path.
RECURSIVE NodesAt(_, _)
NodesAt(node, path) ==
    {[path |-> path, node |-> node]}
    \cup UNION {NodesAt(node.subcategories[name], Append(path, name)) :
                   name \in DOMAIN node.subcategories}

\* The entries of the category map: where each is, its title and its id.
EntriesOfMap ==
    UNION {{[path |-> p.path, title |-> title, id |-> p.node.entries[title].id] :
               title \in DOMAIN p.node.entries} :
           p \in NodesAt(discussion_info.category_map, <<>>)}

\* 'children' holds every key of 'entries' and every key of 'subcategories'
\* once each, in an order of non-decreasing sort_key.
ChildrenSorted(node) ==
    LET n == Len(node.children) IN
    /\ n = Cardinality(DOMAIN node.entries) + Cardinality(DOMAIN node.subcategories)
    /\ \E from \in [1..n -> {"entries", "subcategories"}] :
          /\ \A i \in 1..n : node.children[i] \in DOMAIN node[from[i]]
          /\ \A i, j \in 1..n :
                (i # j /\ from[i] = from[j]) => node.children[i] # node.children[j]
          /\ \A i \in 1..(n - 1) :
                StrLessEq(node[from[i]][node.children[i]].sort_key,
                          node[from[i + 1]][node.children[i + 1]].sort_key)

C10_EveryModuleInCategoryMap ==
    discussion_info # NoneObject =>
        /\ {e.id : e \in EntriesOfMap} = DOMAIN discussion_info.id_map
        /\ \A id \in DOMAIN discussion_info.id_map :
              Cardinality({e \in EntriesOfMap : e.id = id}) = 1
        /\ \A i \in DOMAIN all_modules :
              all_modules[i].category = "discussion" =>
                 \E e \in EntriesOfMap :
                    /\ e.id = all_modules[i].metadata["id"]
                    /\ e.title = all_modules[i].metadata["for"]
                    /\ e.path = StrippedSegments(all_modules[i].metadata["discussion_category"])

\* The events of one kind in the trace of the last call, with their places.
EventsOf(kind) == {i \in DOMAIN saml_call.trace : saml_call.trace[i].event = kind}

\* C11: _create_saml_auth only adds logging.  With debug_mode False the
\* instance keeps its 'login' and 'process_response' untouched and a call
\* logs nothing; with debug_mode True a call of either method calls that
\* method's own original exactly once with the same arguments, returns the
\* original's result unchanged, and logs the XML (the request XML for
\* 'login', the response XML for 'process_response') only after the
\* original has returned, so nothing is logged when the original raises.
C11_DebugOnlyAddsLogging ==
    /\ (auth_inst # NoneObject /\ ~debug_mode) => auth_inst = ParentAuthInst
    /\ saml_call.called =>
          /\ Cardinality(EventsOf("call")) = 1
          /\ saml_call.trace[1] = [event |-> "call", method |-> saml_call.method_name,
                                   args |-> saml_call.args]
          /\ Cardinality(EventsOf("return") \cup EventsOf("raise")) = 1
          /\ \A i \in EventsOf("return") :
                saml_call.returned = saml_call.trace[i].value /\ saml_call.raised = None
          /\ \A i \in EventsOf("raise") :
                /\ saml_call.raised = saml_call.trace[i].value
                /\ saml_call.returned = None
                /\ EventsOf("log") = {}
          /\ ~debug_mode => EventsOf("log") = {}
          /\ (debug_mode /\ EventsOf("return") # {}) =>
                /\ Cardinality(EventsOf("log")) = 1
                /\ \A i \in EventsOf("log") :
                      /\ \A j \in EventsOf("return") : j < i
                      /\ saml_call.trace[i].action_description =
                            (IF saml_call.method_name = "login" THEN "request" ELSE "response")
                      /\ saml_call.trace[i].xml =
                            (IF saml_call.method_name = "login"
                             THEN last_request_xml ELSE last_response_xml)
                      /\ saml_call.trace[i].xml \in XmlDocuments

\* A wrapped login that returned and logged the request XML it had just
\* produced, after a process_response had left another XML behind.
C11_Witness ==
    /\ debug_mode
    /\ saml_call.called
    /\ saml_call.method_name = "login"
    /\ saml_call.returned = "result-2"
    /\ Len(saml_call.trace) = 3
    /\ saml_call.trace[3].event = "log"
    /\ saml_call.trace[3].xml = "<xml-1/>"
    /\ last_response_xml = "<xml-2/>"

====
